---- MODULE Spec2Model ----
(***************************************************************************)
(* Record store of the applytics job-application tracker                   *)
(* (electron/db/index.ts): the applications and history tables, the        *)
(* operations that write them, and the properties the specification        *)
(* states about them.                                                      *)
(***************************************************************************)
EXTENDS Integers, Sequences, FiniteSets, TLC

\* ------------------------------------------------------------------ bounds
MaxClock == 1      \* readings of the store clock
MaxBatch == 2      \* rows of one import batch
MaxFault == 2      \* position of the write statement that a storage fault hits
MaxCalls == 3      \* calls of the store in one run
MaxImportCalls == 4 \* calls in a run of creations and imports
MaxCatalogCalls == 4 \* calls in a run that edits the status catalog
MaxDialogCalls == 2 \* calls in a run that imports through the dialog
MaxPageCalls == 3  \* calls in a run that follows the settings page's clicks
ReadingsPerDay == 2 \* readings of the store clock within one calendar day

\* ------------------------------------------------------------ value domains
NULL == "NULL"                     \* SQL NULL in a TEXT column
void == "void"                     \* a call that returns nothing

Statuses == { "Applied", "Interview" }
EmptyDate == [fmt |-> "empty", t |-> 0]                 \* the string ''
Day0 == [fmt |-> "day", t |-> 0]
Day1 == [fmt |-> "day", t |-> 1]

DEFAULT_STATUSES ==
    << "Applied", "Online Assessment", "Screening", "Interview", "Offer",
       "Rejected", "Online Assessment Expired", "Withdrawn" >>

\* A Partial<Application> is a function whose domain is the set of keys the
\* caller supplied.
Opt(k, S) == { <<>> } \cup { k :> v : v \in S }

Extras == [process_steps |-> <<"Phone">>, outcome |-> "Hired", notes |-> "note"]

CreateInputs ==
    { (k @@ d) :
        k \in { <<>>, [company |-> "Acme", title |-> "Engineer"] },
        d \in { <<>>,
                [status |-> "", date_applied |-> EmptyDate],
                [status |-> "Interview", date_applied |-> Day0] @@ Extras } }

UpdateInputs ==
    { (s @@ d) : s \in Opt("status", Statuses \cup {""}),
                 d \in Opt("date_applied", {EmptyDate, Day1}) }
    \cup { (s @@ [notes |-> "edited"]) : s \in Opt("status", Statuses) }

ImportRows ==
    { [title |-> "Engineer"],
      [company |-> "Acme", title |-> "Engineer"],
      [company |-> "Acme", title |-> "Engineer", status |-> "Interview",
       date_applied |-> Day1] @@ Extras,
      [company |-> "Acme", title |-> "Analyst"],
      [company |-> "Beta", title |-> "Engineer", status |-> "Interview"] }

Batches ==
    UNION { [1..n -> ImportRows] : n \in 1..MaxBatch }

VARIABLES
    db,           \* the database: tables applications and history, and the
                  \* AUTOINCREMENT sequences of both
    now,          \* the store clock
    last,         \* the last call: operation, arguments, outcome, write statements
                  \* run, clock reading
    nStatusUpdates, \* per application id: update calls whose status differed
    onlyUpdated,  \* ids touched by nothing but update since they were inserted
    deleted,      \* ids that deleteApplication has removed
    calls,        \* number of calls made so far
    statuses,     \* SettingsProvider: the catalog shown to the user
    settings,     \* the settings table: key -> JSON text
    loading,      \* SettingsProvider: settings not loaded yet
    deleteData,   \* SettingsPage: the status of the open delete dialog
    migrateTarget \* SettingsPage: the status chosen to migrate to, or ''

page == <<deleteData, migrateTarget>>

catalog == <<statuses, settings, loading, deleteData, migrateTarget>>

vars == <<db, now, last, nStatusUpdates, onlyUpdated, deleted, calls,
          statuses, settings, loading, deleteData, migrateTarget>>

\* ------------------------------------------------------- JS / SQL primitives
Has(o, k) == k \in DOMAIN o

\* o.status || dflt : the key is absent or holds ''
StrOr(o, k, dflt) == IF Has(o, k) /\ o[k] # "" THEN o[k] ELSE dflt

DateTruthy(o) == Has(o, "date_applied") /\ o.date_applied.fmt # "empty"

CURRENT_TIMESTAMP(clock) == [fmt |-> "sql", t |-> clock]

toISOString(clock) == [fmt |-> "iso", t |-> clock]

JSON_stringify(v) == <<"json", v>>

HistoryOf(d, id) == { h \in d.history : h.application_id = id }

AppIds(d) == { a.id : a \in d.applications }

AppById(d, id) == CHOOSE a \in d.applications : a.id = id

SetMin(S) == CHOOSE x \in S : \A y \in S : x <= y

\* ------------------------------------------------ transactions and statements
\* A transaction in progress: the working database, the number of write
\* statements run, whether something threw, the value to return.
Begin(d) == [db |-> d, n |-> 0, err |-> FALSE, ret |-> void]

\* One write statement: it throws when a constraint is violated or when the
\* storage fault hits it, and otherwise replaces the working database.
Run(tx, fault, throws, newdb) ==
    IF tx.err THEN tx
    ELSE IF throws \/ tx.n + 1 = fault
         THEN [tx EXCEPT !.err = TRUE, !.n = tx.n + 1]
         ELSE [tx EXCEPT !.db = newdb, !.n = tx.n + 1]

\* A JS exception between statements.
Throw(tx) == [tx EXCEPT !.err = TRUE]

NoRollback(pre, tx) ==
    [db |-> tx.db, ok |-> ~tx.err, ret |-> IF tx.err THEN void ELSE tx.ret,
     n |-> tx.n]

\* db.transaction(fn)(): COMMIT when fn returns, ROLLBACK when it throws.
transaction(pre, tx) ==
    IF tx.err THEN [db |-> pre, ok |-> FALSE, ret |-> void, n |-> tx.n]
    ELSE [db |-> tx.db, ok |-> TRUE, ret |-> tx.ret, n |-> tx.n]

\* INSERT INTO applications (...) VALUES (...): id from AUTOINCREMENT,
\* current_step_index and last_updated from the column defaults.
InsertApplication(d, clock, p) ==
    [d EXCEPT
       !.applications = @ \cup
           { [id |-> d.seqApp + 1, company |-> p.company, title |-> p.title,
              status |-> p.status, date_applied |-> p.date_applied,
              process_steps |-> p.process_steps, current_step_index |-> 0,
              outcome |-> p.outcome, notes |-> p.notes,
              last_updated |-> CURRENT_TIMESTAMP(clock)] },
       !.seqApp = @ + 1]

\* INSERT INTO history (application_id, status, date)
InsertHistory(d, appId, status, date) ==
    [d EXCEPT
       !.history = @ \cup
           { [id |-> d.seqHist + 1, application_id |-> appId,
              status |-> status, date |-> date] },
       !.seqHist = @ + 1]

\* company TEXT NOT NULL, title TEXT NOT NULL (an absent parameter cannot be
\* bound either)
NotNullFails(o) == ~Has(o, "company") \/ ~Has(o, "title")

\* the parameters addApplication and bulkUpsertApplications bind
AppData(app, clock) ==
    [company |-> app.company, title |-> app.title,
     status |-> StrOr(app, "status", "Applied"),
     date_applied |-> IF DateTruthy(app) THEN app.date_applied
                      ELSE toISOString(clock),
     process_steps |-> JSON_stringify(IF Has(app, "process_steps")
                                      THEN app.process_steps ELSE <<>>),
     outcome |-> StrOr(app, "outcome", NULL),
     notes |-> StrOr(app, "notes", "")]

addApplicationHistoryNow(d, clock, app, fault) ==
    LET id == d.seqApp + 1
        t1 == Run(Begin(d), fault, NotNullFails(app),
                  InsertApplication(d, clock, AppData(app, clock)))
        t2 == Run(t1, fault, FALSE,
                  InsertHistory(t1.db, id, AppData(app, clock).status,
                                CURRENT_TIMESTAMP(clock)))
    IN transaction(d, [t2 EXCEPT !.ret = id])

addApplication(d, clock, app, fault) ==
    LET id == d.seqApp + 1
        t1 == Run(Begin(d), fault, NotNullFails(app),
                  InsertApplication(d, clock, AppData(app, clock)))
        t2 == Run(t1, fault, FALSE,
                  LET p == AppData(app, clock)
                  IN InsertHistory(t1.db, id, p.status, p.date_applied))
    IN transaction(d, [t2 EXCEPT !.ret = id])

\* the UPDATE without its WHERE clause
UpdateApplicationRowEveryRow(d, clock, id, updates) ==
    [d EXCEPT !.applications =
        { [k \in DOMAIN a |->
              IF k = "last_updated" THEN CURRENT_TIMESTAMP(clock)
              ELSE IF k = "id" \/ ~Has(updates, k) THEN a[k]
              ELSE IF k = "process_steps" THEN JSON_stringify(updates[k])
              ELSE updates[k]]
          : a \in @ }]

\* UPDATE applications SET <supplied fields>, last_updated = CURRENT_TIMESTAMP
\* WHERE id = @id  (process_steps is bound as JSON text)
UpdateApplicationRow(d, clock, id, updates) ==
    [d EXCEPT !.applications =
        { IF a.id # id THEN a
          ELSE [k \in DOMAIN a |->
                  IF k = "last_updated" THEN CURRENT_TIMESTAMP(clock)
                  ELSE IF k = "id" \/ ~Has(updates, k) THEN a[k]
                  ELSE IF k = "process_steps" THEN JSON_stringify(updates[k])
                  ELSE updates[k]]
          : a \in @ }]

\* UPDATE history SET date = ? WHERE id = (SELECT id FROM history
\* WHERE application_id = ? ORDER BY id ASC LIMIT 1)
UpdateFirstHistoryDate(d, id, date) ==
    IF HistoryOf(d, id) = {} THEN d
    ELSE LET first == SetMin({ h.id : h \in HistoryOf(d, id) })
         IN [d EXCEPT !.history =
                { IF h.id = first THEN [h EXCEPT !.date = date] ELSE h
                  : h \in @ }]

updateApplication(d, clock, id, updates, fault) ==
    LET fields == DOMAIN updates \ {"id"}
        currentApp == { a \in d.applications : a.id = id }
        statusTruthy == Has(updates, "status") /\ updates.status # ""
        t1 == Run(Begin(d), fault, FALSE,
                  UpdateApplicationRow(d, clock, id, updates))
        t2 == IF ~statusTruthy THEN t1
              ELSE IF currentApp = {} THEN Throw(t1)
              ELSE IF updates.status # AppById(d, id).status
                   THEN Run(t1, fault, FALSE,
                            InsertHistory(t1.db, id, updates.status,
                                          CURRENT_TIMESTAMP(clock)))
                   ELSE t1
        t3 == IF DateTruthy(updates)
              THEN Run(t2, fault, FALSE,
                       UpdateFirstHistoryDate(t2.db, id, updates.date_applied))
              ELSE t2
    IN IF fields = {} THEN [db |-> d, ok |-> TRUE, ret |-> void, n |-> 0]
       ELSE transaction(d, t3)

DeleteApplicationRowNoCascade(d, id) ==
    [d EXCEPT !.applications = { a \in @ : a.id # id }]

\* DELETE FROM applications WHERE id = ?, with ON DELETE CASCADE on history
DeleteApplicationRow(d, id) ==
    [d EXCEPT !.applications = { a \in @ : a.id # id },
              !.history = { h \in @ : h.application_id # id }]

\* a single statement: it runs whole or not at all
deleteApplication(d, id, fault) ==
    LET t1 == Run(Begin(d), fault, FALSE, DeleteApplicationRow(d, id))
    IN [db |-> t1.db, ok |-> ~t1.err, ret |-> void, n |-> t1.n]

\* the UPDATE that refreshes last_updated and leaves status alone
UpdateStatusWhereKeepStatus(d, clock, oldStatus, newStatus) ==
    [d EXCEPT !.applications =
        { IF a.status = oldStatus
          THEN [a EXCEPT !.last_updated = CURRENT_TIMESTAMP(clock)]
          ELSE a : a \in @ }]

\* UPDATE applications SET status = ?, last_updated = CURRENT_TIMESTAMP
\* WHERE status = ?
UpdateStatusWhere(d, clock, oldStatus, newStatus) ==
    [d EXCEPT !.applications =
        { IF a.status = oldStatus
          THEN [a EXCEPT !.status = newStatus,
                         !.last_updated = CURRENT_TIMESTAMP(clock)]
          ELSE a : a \in @ }]

\* for (const app of apps) insertHistory.run(app.id, newStatus), in the order
\* of the SELECT (rowid order)
InsertHistoryFirst(tx, ids, newStatus, clock, fault) ==
    IF ids = {} THEN tx
    ELSE Run(tx, fault, FALSE,
             InsertHistory(tx.db, SetMin(ids), newStatus,
                           CURRENT_TIMESTAMP(clock)))

RECURSIVE InsertHistoryEach(_, _, _, _, _)
InsertHistoryEach(tx, ids, newStatus, clock, fault) ==
    IF ids = {} THEN tx
    ELSE LET id == SetMin(ids)
             t == Run(tx, fault, FALSE,
                      InsertHistory(tx.db, id, newStatus,
                                    CURRENT_TIMESTAMP(clock)))
         IN InsertHistoryEach(t, ids \ {id}, newStatus, clock, fault)

bulkUpdateStatus(d, clock, oldStatus, newStatus, fault) ==
    LET apps == { a.id : a \in { b \in d.applications : b.status = oldStatus } }
        t1 == Run(Begin(d), fault, FALSE,
                  UpdateStatusWhere(d, clock, oldStatus, newStatus))
        t2 == InsertHistoryEach(t1, apps, newStatus, clock, fault)
    IN IF apps = {} THEN [db |-> d, ok |-> TRUE, ret |-> void, n |-> 0]
       ELSE transaction(d, t2)

findExistingSwapped(d, company, title) ==
    { a.id : a \in { b \in d.applications :
                        b.company = title /\ b.title = company } }

findExistingByCompany(d, company, title) ==
    { a.id : a \in { b \in d.applications : b.company = company } }

\* SELECT id FROM applications WHERE company = ? AND title = ?  (.get():
\* the first row of the table scan)
findExisting(d, company, title) ==
    { a.id : a \in { b \in d.applications :
                        b.company = company /\ b.title = title } }

UpsertUpdateRowWithHistory(d, clock, id, p) ==
    [d EXCEPT !.applications =
        { IF a.id = id
          THEN [a EXCEPT !.status = p.status,
                         !.date_applied = p.date_applied,
                         !.process_steps = p.process_steps,
                         !.outcome = p.outcome,
                         !.notes = p.notes,
                         !.last_updated = CURRENT_TIMESTAMP(clock)]
          ELSE a : a \in @ },
       !.history = @ \cup
           { [id |-> d.seqHist + 1, application_id |-> id,
              status |-> p.status, date |-> CURRENT_TIMESTAMP(clock)] },
       !.seqHist = @ + 1]

\* UPDATE applications SET status, date_applied, process_steps, outcome,
\* notes, last_updated = CURRENT_TIMESTAMP WHERE id = @id
UpsertUpdateRow(d, clock, id, p) ==
    [d EXCEPT !.applications =
        { IF a.id = id
          THEN [a EXCEPT !.status = p.status,
                         !.date_applied = p.date_applied,
                         !.process_steps = p.process_steps,
                         !.outcome = p.outcome,
                         !.notes = p.notes,
                         !.last_updated = CURRENT_TIMESTAMP(clock)]
          ELSE a : a \in @ }]

\* the loop of bulkUpsertApplications over the rows i..Len(rows)
RECURSIVE UpsertRows(_, _, _, _, _)
UpsertRows(tx, rows, i, clock, fault) ==
    IF i > Len(rows) \/ tx.err THEN tx
    ELSE LET app == rows[i]
             existing == IF NotNullFails(app) THEN {}
                         ELSE findExisting(tx.db, app.company, app.title)
             t == IF NotNullFails(app) THEN Throw(tx)
                  ELSE IF existing # {}
                  THEN [Run(tx, fault, FALSE,
                            UpsertUpdateRow(tx.db, clock, SetMin(existing),
                                            AppData(app, clock)))
                        EXCEPT !.ret.updated = @ + 1]
                  ELSE [Run(tx, fault, FALSE,
                            InsertApplication(tx.db, clock,
                                              AppData(app, clock)))
                        EXCEPT !.ret.added = @ + 1]
         IN UpsertRows(t, rows, i + 1, clock, fault)

bulkUpsertApplications(d, clock, apps, fault) ==
    LET t0 == [Begin(d) EXCEPT !.ret = [added |-> 0, updated |-> 0]]
    IN transaction(d, UpsertRows(t0, apps, 1, clock, fault))

\* JSON.parse of a text JSON.stringify wrote
JSON_parse(text) == text[2]

\* ------------------------------------------------------------- the queries
\* ORDER BY leaves the order of rows with equal keys open: SQLite may return
\* them in either rowid order.
Ties == { "asc", "desc" }

TieFirst(tie, x, y) == IF tie = "asc" THEN x.id <= y.id ELSE x.id >= y.id

\* rows.map(row => ({...row, process_steps: JSON.parse(row.process_steps)}))
ParseRow(row) == [row EXCEPT !.process_steps = JSON_parse(@)]

\* ORDER BY last_updated DESC (every last_updated is a CURRENT_TIMESTAMP
\* text, so the text order is the order of the clock readings)
RECURSIVE OrderByLastUpdatedDesc(_, _)
OrderByLastUpdatedDesc(rows, tie) ==
    IF rows = {} THEN <<>>
    ELSE LET first == CHOOSE x \in rows : \A y \in rows :
                         \/ x.last_updated.t > y.last_updated.t
                         \/ /\ x.last_updated.t = y.last_updated.t
                            /\ TieFirst(tie, x, y)
         IN <<first>> \o OrderByLastUpdatedDesc(rows \ {first}, tie)

getApplicationsAscending(d, tie) ==
    LET rows == OrderByLastUpdatedDesc(d.applications, tie)
    IN [i \in 1..Len(rows) |-> ParseRow(rows[Len(rows) + 1 - i])]

\* SELECT * FROM applications ORDER BY last_updated DESC
getApplications(d, tie) ==
    LET rows == OrderByLastUpdatedDesc(d.applications, tie)
    IN [i \in 1..Len(rows) |-> ParseRow(rows[i])]

\* The calendar day a date text names: Day0, Day1 are 'YYYY-MM-DD' texts,
\* the others carry a reading of the store clock.
DayOf(date) ==
    IF date.fmt = "day" THEN date.t ELSE date.t \div ReadingsPerDay

\* Within one day the texts differ first at their eleventh character:
\* 'YYYY-MM-DD' ends there, CURRENT_TIMESTAMP has ' ', toISOString has 'T'.
FmtRank(fmt) ==
    CASE fmt = "empty" -> 0
      [] fmt = "day" -> 1
      [] fmt = "sql" -> 2
      [] fmt = "iso" -> 3

\* a < b as SQLite compares TEXT values
TextLess(a, b) ==
    IF a.fmt = "empty" \/ b.fmt = "empty"
    THEN a.fmt = "empty" /\ b.fmt # "empty"
    ELSE \/ DayOf(a) < DayOf(b)
         \/ /\ DayOf(a) = DayOf(b)
            /\ \/ FmtRank(a.fmt) < FmtRank(b.fmt)
               \/ a.fmt = b.fmt /\ a.t < b.t

\* ORDER BY date DESC
RECURSIVE OrderByDateDesc(_, _)
OrderByDateDesc(rows, tie) ==
    IF rows = {} THEN <<>>
    ELSE LET first == CHOOSE x \in rows : \A y \in rows :
                         \/ TextLess(y.date, x.date)
                         \/ /\ ~TextLess(x.date, y.date)
                            /\ TieFirst(tie, x, y)
         IN <<first>> \o OrderByDateDesc(rows \ {first}, tie)

\* SELECT * FROM history WHERE application_id = ? ORDER BY date DESC
getHistory(d, applicationId, tie) ==
    OrderByDateDesc(HistoryOf(d, applicationId), tie)

\* ------------------------------------------------------------------ getStats
RECURSIVE Sum(_, _)
Sum(f, S) ==
    IF S = {} THEN 0
    ELSE LET x == CHOOSE y \in S : TRUE IN f[x] + Sum(f, S \ {x})

\* SELECT COUNT(*) FROM applications
total(d) == Cardinality(d.applications)

InterviewReachedStatuses == { "Interview", "Offer", "Accepted" }

interviewReachedAllRows(d) ==
    Cardinality({ h \in d.history : h.status \in InterviewReachedStatuses })

\* SELECT COUNT(DISTINCT application_id) FROM history
\* WHERE status IN ('Interview', 'Offer', 'Accepted')
interviewReached(d) ==
    Cardinality({ h.application_id :
                    h \in { g \in d.history :
                              g.status \in InterviewReachedStatuses } })

\* total > 0 ? (interviewReached / total) * 100 : 0, as an exact fraction
interviewRate(d) ==
    IF total(d) > 0
    THEN [num |-> interviewReached(d) * 100, den |-> total(d)]
    ELSE [num |-> 0, den |-> 1]

NotMeaningfulStatuses == { "Applied", "Withdrawn", "Online Assessment" }

\* julianday(text) in readings of the clock: a 'YYYY-MM-DD' text is the
\* midnight that starts the day; '' gives NULL
julianday(date) ==
    IF date.fmt = "day" THEN date.t * ReadingsPerDay ELSE date.t

\* the applications the join keeps: those with a meaningful event
Responded(d) ==
    { a \in d.applications :
        \E h \in HistoryOf(d, a.id) : h.status \notin NotMeaningfulStatuses }

\* h.id = (SELECT id FROM history h2 WHERE h2.application_id = a.id AND
\* h2.status NOT IN (...) ORDER BY h2.date ASC LIMIT 1): events with the
\* same date text have the same julianday
FirstResponseDate(d, a) ==
    LET hs == { h \in HistoryOf(d, a.id) :
                  h.status \notin NotMeaningfulStatuses }
    IN (CHOOSE h \in hs : \A g \in hs : ~TextLess(g.date, h.date)).date

\* AVG(julianday(h.date) - julianday(a.date_applied)): the sum and the
\* number of the non-NULL differences; n = 0 is the NULL average
avgResponseTime(d) ==
    LET rows == { a \in Responded(d) : a.date_applied.fmt # "empty" }
        diff == [a \in rows |->
                    julianday(FirstResponseDate(d, a))
                        - julianday(a.date_applied)]
    IN [sum |-> Sum(diff, rows), n |-> Cardinality(rows)]

\* ---------------------------------------------------------------- getAnalytics
\* one row of the response-time query for each application with a
\* meaningful event: days is NULL when date_applied is ''
responseTimes(d) ==
    [a \in Responded(d) |->
        IF a.date_applied.fmt = "empty" THEN [null |-> TRUE, days |-> 0]
        ELSE [null |-> FALSE,
              days |-> julianday(FirstResponseDate(d, a))
                           - julianday(a.date_applied)]]

Buckets == { "< 1 week", "1-2 weeks", "2-4 weeks", "1+ month" }

bucketInclusive(r) ==
    IF r.null \/ r.days <= 7 * ReadingsPerDay THEN "< 1 week"
    ELSE IF r.days <= 14 * ReadingsPerDay THEN "1-2 weeks"
    ELSE IF r.days <= 30 * ReadingsPerDay THEN "2-4 weeks"
    ELSE "1+ month"

\* the if/else chain of responseTimes.forEach, days counted in readings of
\* the clock; JS takes null < 7 as 0 < 7
bucket(r) ==
    IF r.null \/ r.days < 7 * ReadingsPerDay THEN "< 1 week"
    ELSE IF r.days < 14 * ReadingsPerDay THEN "1-2 weeks"
    ELSE IF r.days < 30 * ReadingsPerDay THEN "2-4 weeks"
    ELSE "1+ month"

responseTimeDistribution(d) ==
    LET rows == responseTimes(d)
    IN [b \in Buckets |->
           Cardinality({ a \in DOMAIN rows : bucket(rows[a]) = b })]

\* ------------------------------------------------------- the status catalog
\* Array.prototype.includes
includes(arr, x) == \E i \in 1..Len(arr) : arr[i] = x

\* String.prototype.trim on the texts typed into the new-status field
trim(str) ==
    CASE str = " " -> ""
      [] str = " Custom " -> "Custom"
      [] OTHER -> str

\* INSERT OR REPLACE INTO settings (key, value) VALUES (?, ?)
saveSetting(st, key, value) == (key :> JSON_stringify(value)) @@ st

\* SELECT * FROM settings, every value parsed
getSettings(st) == [k \in DOMAIN st |-> JSON_parse(st[k])]

\* The functions of SettingsProvider: from the catalog shown (sts) and the
\* settings table (st) to both after the call.
loadSettings(sts, st) ==
    LET got == getSettings(st)
    IN IF Has(got, "statuses")
       THEN [statuses |-> got.statuses, settings |-> st]
       ELSE [statuses |-> sts,
             settings |-> saveSetting(st, "statuses", DEFAULT_STATUSES)]

addStatusUnchecked(sts, st, status) ==
    LET newStatuses == Append(sts, status)
    IN [statuses |-> newStatuses,
        settings |-> saveSetting(st, "statuses", newStatuses)]

addStatus(sts, st, status) ==
    IF includes(sts, status) THEN [statuses |-> sts, settings |-> st]
    ELSE LET newStatuses == Append(sts, status)
         IN [statuses |-> newStatuses,
             settings |-> saveSetting(st, "statuses", newStatuses)]

updateStatuses(sts, st, newStatuses) ==
    [statuses |-> newStatuses,
     settings |-> saveSetting(st, "statuses", newStatuses)]

deleteStatus(sts, st, status) ==
    LET newStatuses == SelectSeq(sts, LAMBDA x : x # status)
    IN [statuses |-> newStatuses,
        settings |-> saveSetting(st, "statuses", newStatuses)]

\* bulkMigrateStatus: window.electronAPI.bulkUpdateStatus(oldStatus, newStatus)
bulkMigrateStatus(d, clock, oldStatus, newStatus, fault) ==
    bulkUpdateStatus(d, clock, oldStatus, newStatus, fault)

\* handleDeleteClick: the number of applications that use the status
usageCount(d, status) ==
    Cardinality({ a \in d.applications : a.status = status })

\* the status deleted whatever the migration did
confirmDeleteWithMigrationDeleteFirst(d, clock, sts, st, status, target, fault) ==
    LET m == bulkMigrateStatus(d, clock, status, target, fault)
        c == deleteStatus(sts, st, status)
    IN [db |-> m.db, ok |-> m.ok, n |-> m.n,
        statuses |-> c.statuses, settings |-> c.settings]

\* confirmDeleteWithMigration: migrate, then delete the status; a migration
\* that throws leaves the catalog as it was
confirmDeleteWithMigration(d, clock, sts, st, status, target, fault) ==
    LET m == bulkMigrateStatus(d, clock, status, target, fault)
        c == deleteStatus(sts, st, status)
    IN IF m.ok
       THEN [db |-> m.db, ok |-> TRUE, n |-> m.n,
             statuses |-> c.statuses, settings |-> c.settings]
       ELSE [db |-> m.db, ok |-> FALSE, n |-> m.n,
             statuses |-> sts, settings |-> st]

confirmDeleteWithoutMigrationRelabel(d, clock, sts, st, status) ==
    LET c == deleteStatus(sts, st, status)
        m == bulkUpdateStatus(d, clock, status, "Applied", 0)
    IN [db |-> m.db, ok |-> TRUE, n |-> m.n,
        statuses |-> c.statuses, settings |-> c.settings]

\* confirmDeleteWithoutMigration: delete the status from the list only
confirmDeleteWithoutMigration(d, clock, sts, st, status) ==
    LET c == deleteStatus(sts, st, status)
    IN [db |-> d, ok |-> TRUE, n |-> 0,
        statuses |-> c.statuses, settings |-> c.settings]

\* resetToDefaults: the list of the eight built-in statuses
defaults == DEFAULT_STATUSES

resetToDefaults(sts, st) == updateStatuses(sts, st, defaults)

\* statuses.filter(s => s !== status)
available(sts, status) == SelectSeq(sts, LAMBDA s : s # status)

\* handleDeleteClick on a status in use: the dialog opens and the target
\* becomes the first other status, when there is one
handleDeleteClick(d, sts, target, status) ==
    [deleteData |-> [status |-> status, usageCount |-> usageCount(d, status)],
     migrateTarget |-> IF Len(available(sts, status)) > 0
                       THEN available(sts, status)[1] ELSE target]

\* ------------------------------------------------------------------- state
NoCall == [op |-> "none", id |-> 0, arg |-> <<>>, ok |-> TRUE, ret |-> void,
           n |-> 0, at |-> 0, repeat |-> FALSE]

\* useState<...>(null): no delete dialog is open
NoDeleteData == [status |-> "", usageCount |-> 0]

Init ==
    /\ db = [applications |-> {}, history |-> {}, seqApp |-> 0, seqHist |-> 0]
    /\ now = 0
    /\ last = NoCall
    /\ nStatusUpdates = [i \in 1..(MaxCalls * MaxBatch + 1) |-> 0]
    /\ onlyUpdated = {}
    /\ deleted = {}
    /\ calls = 0
    /\ statuses = DEFAULT_STATUSES
    /\ settings = <<>>
    /\ loading = TRUE
    /\ deleteData = NoDeleteData
    /\ migrateTarget = ""

\* the ids a caller may name: every id handed out so far and one that was not
IdsToTry == 1..(db.seqApp + 1)

Create(Inputs, Faults, Budget) ==
    \E app \in Inputs, fault \in Faults :
        LET r == addApplication(db, now, app, fault)
        IN /\ calls < Budget
           /\ calls' = calls + 1
           /\ db' = r.db
           /\ UNCHANGED now
           /\ last' = [op |-> "create", id |-> db.seqApp + 1, arg |-> app,
                       ok |-> r.ok, ret |-> r.ret, n |-> r.n, at |-> now,
                       repeat |-> FALSE]
           /\ onlyUpdated' = onlyUpdated \cup (AppIds(r.db) \ AppIds(db))
           /\ UNCHANGED <<nStatusUpdates, deleted>>
           /\ UNCHANGED catalog

\* the update calls that count for the status-change invariant
StatusDiffers(d, id, updates) ==
    /\ id \in AppIds(d)
    /\ Has(updates, "status")
    /\ updates.status # AppById(d, id).status

Update(Inputs, Faults, Budget) ==
    \E id \in IdsToTry, updates \in Inputs, fault \in Faults :
        LET r == updateApplication(db, now, id, updates, fault)
        IN /\ calls < Budget
           /\ calls' = calls + 1
           /\ db' = r.db
           /\ UNCHANGED now
           /\ last' = [op |-> "update", id |-> id, arg |-> updates,
                       ok |-> r.ok, ret |-> r.ret, n |-> r.n, at |-> now,
                       repeat |-> FALSE]
           /\ nStatusUpdates' =
                 IF r.ok /\ StatusDiffers(db, id, updates)
                 THEN [nStatusUpdates EXCEPT ![id] = @ + 1]
                 ELSE nStatusUpdates
           /\ UNCHANGED <<onlyUpdated, deleted>>
           /\ UNCHANGED catalog

Delete(Faults, Budget) ==
    \E id \in IdsToTry, fault \in Faults :
        LET r == deleteApplication(db, id, fault)
        IN /\ calls < Budget
           /\ calls' = calls + 1
           /\ db' = r.db
           /\ UNCHANGED now
           /\ last' = [op |-> "delete", id |-> id, arg |-> <<>>,
                       ok |-> r.ok, ret |-> r.ret, n |-> r.n, at |-> now,
                       repeat |-> FALSE]
           /\ deleted' = IF r.ok /\ id \in AppIds(db) THEN deleted \cup {id}
                         ELSE deleted
           /\ onlyUpdated' = IF r.ok THEN onlyUpdated \ {id} ELSE onlyUpdated
           /\ UNCHANGED nStatusUpdates
           /\ UNCHANGED catalog

BulkMigrate(Faults, Budget) ==
    \E oldStatus \in Statuses, newStatus \in Statuses, fault \in Faults :
        LET r == bulkUpdateStatus(db, now, oldStatus, newStatus, fault)
        IN /\ calls < Budget
           /\ calls' = calls + 1
           /\ db' = r.db
           /\ UNCHANGED now
           /\ last' = [op |-> "migrate", id |-> 0,
                       arg |-> <<oldStatus, newStatus>>,
                       ok |-> r.ok, ret |-> r.ret, n |-> r.n, at |-> now,
                       repeat |-> FALSE]
           /\ onlyUpdated' =
                 IF r.ok
                 THEN onlyUpdated \ { a.id : a \in { b \in db.applications :
                                                      b.status = oldStatus } }
                 ELSE onlyUpdated
           /\ UNCHANGED <<nStatusUpdates, deleted>>
           /\ UNCHANGED catalog

Import(Inputs, Faults, Budget) ==
    \E apps \in Inputs, fault \in Faults :
        LET r == bulkUpsertApplications(db, now, apps, fault)
        IN /\ calls < Budget
           /\ calls' = calls + 1
           /\ db' = r.db
           /\ UNCHANGED now
           /\ last' = [op |-> "import", id |-> 0, arg |-> apps,
                       ok |-> r.ok, ret |-> r.ret, n |-> r.n, at |-> now,
                       repeat |-> last.op = "import" /\ last.ok
                                  /\ last.arg = apps]
           /\ onlyUpdated' =
                 IF r.ok
                 THEN { id \in onlyUpdated :
                          AppById(r.db, id) = AppById(db, id) }
                      \cup (AppIds(r.db) \ AppIds(db))
                 ELSE onlyUpdated
           /\ UNCHANGED <<nStatusUpdates, deleted>>
           /\ UNCHANGED catalog

\* time passes between calls
Tick ==
    /\ now < MaxClock
    /\ now' = now + 1
    /\ UNCHANGED <<db, last, nStatusUpdates, onlyUpdated, deleted, calls>>
    /\ UNCHANGED catalog

\* ---------------------------------------------- the settings page's handlers
NewStatusInputs == { "", " ", " Custom ", "Custom", "Interview" }

\* a catalog call leaves the store's bookkeeping alone
CatalogCall(op, arg, ok, n) ==
    /\ calls' = calls + 1
    /\ last' = [op |-> op, id |-> 0, arg |-> arg, ok |-> ok, ret |-> void,
                n |-> n, at |-> now, repeat |-> FALSE]
    /\ UNCHANGED <<now, nStatusUpdates, deleted, loading>>

\* the effect that runs when SettingsProvider mounts
LoadSettings ==
    LET c == loadSettings(statuses, settings)
    IN /\ loading
       /\ loading' = FALSE
       /\ statuses' = c.statuses
       /\ settings' = c.settings
       /\ UNCHANGED <<db, now, last, nStatusUpdates, onlyUpdated, deleted,
                      calls>>
       /\ UNCHANGED page

HandleAddStatus(Inputs, Budget) ==
    \E newStatus \in Inputs :
        LET c == IF trim(newStatus) # ""
                 THEN addStatus(statuses, settings, trim(newStatus))
                 ELSE [statuses |-> statuses, settings |-> settings]
        IN /\ calls < Budget
           /\ statuses' = c.statuses
           /\ settings' = c.settings
           /\ CatalogCall("addStatus", newStatus, TRUE, 0)
           /\ UNCHANGED <<db, onlyUpdated>>
           /\ UNCHANGED page

\* handleDeleteClick on a status no application uses
DeleteUnused(Budget) ==
    \E i \in 1..Len(statuses) :
        LET status == statuses[i]
            c == deleteStatus(statuses, settings, status)
        IN /\ calls < Budget
           /\ usageCount(db, status) = 0
           /\ statuses' = c.statuses
           /\ settings' = c.settings
           /\ CatalogCall("deleteStatus", status, TRUE, 0)
           /\ UNCHANGED <<db, onlyUpdated>>
           /\ UNCHANGED page

\* handleDeleteClick on a status in use, a target picked in the select, then
\* "Migrate & Delete"
ConfirmDeleteWithMigration(Faults, Budget) ==
    \E i \in 1..Len(statuses), j \in 1..Len(statuses), fault \in Faults :
        LET status == statuses[i]
            target == statuses[j]
            r == confirmDeleteWithMigration(db, now, statuses, settings,
                                            status, target, fault)
        IN /\ calls < Budget
           /\ usageCount(db, status) > 0
           /\ target # status
           /\ db' = r.db
           /\ statuses' = r.statuses
           /\ settings' = r.settings
           /\ CatalogCall("migrateDelete", <<status, target>>, r.ok, r.n)
           /\ migrateTarget' = target
           /\ deleteData' = IF r.ok THEN NoDeleteData
                            ELSE handleDeleteClick(db, statuses, migrateTarget,
                                                   status).deleteData
           /\ onlyUpdated' =
                 IF r.ok
                 THEN onlyUpdated \ { a.id : a \in { b \in db.applications :
                                                      b.status = status } }
                 ELSE onlyUpdated

\* handleDeleteClick on a status in use, "Keep existing usages", then
\* "Delete Only"
ConfirmDeleteWithoutMigration(Budget) ==
    \E i \in 1..Len(statuses) :
        LET status == statuses[i]
            r == confirmDeleteWithoutMigration(db, now, statuses, settings,
                                               status)
        IN /\ calls < Budget
           /\ usageCount(db, status) > 0
           /\ db' = r.db
           /\ statuses' = r.statuses
           /\ settings' = r.settings
           /\ CatalogCall("deleteStatus", status, r.ok, r.n)
           /\ UNCHANGED onlyUpdated
           /\ migrateTarget' = ""
           /\ deleteData' = NoDeleteData

ResetToDefaults(Budget) ==
    LET c == resetToDefaults(statuses, settings)
    IN /\ calls < Budget
       /\ statuses' = c.statuses
       /\ settings' = c.settings
       /\ CatalogCall("reset", <<>>, TRUE, 0)
       /\ UNCHANGED <<db, onlyUpdated>>
       /\ UNCHANGED page

\* the delete dialog, one click at a time
HandleDeleteClick ==
    \E i \in 1..Len(statuses) :
        LET pg == handleDeleteClick(db, statuses, migrateTarget, statuses[i])
        IN /\ deleteData = NoDeleteData
           /\ usageCount(db, statuses[i]) > 0
           /\ deleteData' = pg.deleteData
           /\ migrateTarget' = pg.migrateTarget
           /\ UNCHANGED <<db, now, last, nStatusUpdates, onlyUpdated, deleted,
                          calls, statuses, settings, loading>>

\* the radio button "Migrate applications to:"
ChooseMigrate ==
    /\ deleteData # NoDeleteData
    /\ Len(available(statuses, deleteData.status)) > 0
    /\ migrateTarget' = available(statuses, deleteData.status)[1]
    /\ UNCHANGED <<db, now, last, nStatusUpdates, onlyUpdated, deleted, calls,
                   statuses, settings, loading, deleteData>>

\* the select, enabled while a target is set
SelectTarget ==
    \E i \in 1..Len(statuses) :
        /\ deleteData # NoDeleteData
        /\ migrateTarget # ""
        /\ statuses[i] # deleteData.status
        /\ migrateTarget' = statuses[i]
        /\ UNCHANGED <<db, now, last, nStatusUpdates, onlyUpdated, deleted,
                       calls, statuses, settings, loading, deleteData>>

\* the radio button "Keep existing usages"
ChooseKeep ==
    /\ deleteData # NoDeleteData
    /\ migrateTarget' = ""
    /\ UNCHANGED <<db, now, last, nStatusUpdates, onlyUpdated, deleted, calls,
                   statuses, settings, loading, deleteData>>

Cancel ==
    /\ deleteData # NoDeleteData
    /\ deleteData' = NoDeleteData
    /\ UNCHANGED <<db, now, last, nStatusUpdates, onlyUpdated, deleted, calls,
                   statuses, settings, loading, migrateTarget>>

\* the red button while a target is set: "Migrate & Delete"
ConfirmMigrate(Faults, Budget) ==
    \E fault \in Faults :
        LET status == deleteData.status
            r == confirmDeleteWithMigration(db, now, statuses, settings,
                                            status, migrateTarget, fault)
        IN /\ calls < Budget
           /\ deleteData # NoDeleteData
           /\ migrateTarget # ""
           /\ db' = r.db
           /\ statuses' = r.statuses
           /\ settings' = r.settings
           /\ CatalogCall("migrateDelete", <<status, migrateTarget>>,
                          r.ok, r.n)
           /\ onlyUpdated' =
                 IF r.ok
                 THEN onlyUpdated \ { a.id : a \in { b \in db.applications :
                                                      b.status = status } }
                 ELSE onlyUpdated
           /\ deleteData' = IF r.ok THEN NoDeleteData ELSE deleteData
           /\ UNCHANGED migrateTarget

\* the red button while no target is set: "Delete Only"
ConfirmKeep(Budget) ==
    LET status == deleteData.status
        r == confirmDeleteWithoutMigration(db, now, statuses, settings, status)
    IN /\ calls < Budget
       /\ deleteData # NoDeleteData
       /\ migrateTarget = ""
       /\ db' = r.db
       /\ statuses' = r.statuses
       /\ settings' = r.settings
       /\ CatalogCall("deleteStatus", status, r.ok, r.n)
       /\ deleteData' = NoDeleteData
       /\ UNCHANGED <<onlyUpdated, migrateTarget>>

\* ------------------------------------------------------- the import dialog
\* A cell of the parsed sheet: a text, a text holding a calendar day, an Excel
\* serial number, or undefined (the row is shorter than the header row).
Undefined == [kind |-> "undefined", s |-> "", t |-> 0]
Text(s) == [kind |-> "string", s |-> s, t |-> 0]
DayText(t) == [kind |-> "date", s |-> "", t |-> t]
Serial(t) == [kind |-> "number", s |-> "", t |-> t]

Headers == << "Company", "Job Title", "Status", "Date Applied" >>

\* the mappings the user may leave or set in step 2
Mappings ==
    { [h \in { Headers[i] : i \in 1..4 } |->
          CASE h = "Company" -> "company" [] h = "Job Title" -> "title"
            [] h = "Status" -> "status" [] OTHER -> "date_applied"],
      [h \in { Headers[i] : i \in 1..2 } |->
          IF h = "Company" THEN "company" ELSE "title"],
      [h \in { Headers[i] : i \in 1..2 } |->
          IF h = "Company" THEN "company" ELSE "notes"] }

RawRows ==
    { << Text("Acme"), Text("Engineer"), Text("Interview"), Serial(1) >>,
      << Text("Acme"), Text("Analyst"), Text(""), DayText(0) >>,
      << Text(""), Text("Engineer"), Text("Interview") >>,
      << Undefined, Text("Engineer") >>,
      << Text("Beta") >> }

RawData == UNION { [1..n -> RawRows] : n \in 1..MaxBatch }

\* new Date(Math.round((value - 25569) * 86400 * 1000)).toISOString(): the
\* midnight that starts the day of the serial number; any other value is kept
cleanDate(value) ==
    CASE value.kind = "number" -> toISOString(value.t * ReadingsPerDay)
      [] value.kind = "date" -> [fmt |-> "day", t |-> value.t]
      [] value.kind = "string" /\ value.s = "" -> EmptyDate

\* the object rawData.map builds for one row: the last header mapped to a
\* field wins, then the defaults of status and date_applied
processRow(row, headers, mapping, clock) ==
    LET field(i) == IF headers[i] \in DOMAIN mapping THEN mapping[headers[i]]
                    ELSE ""
        idx(f) == { i \in 1..Len(headers) : field(i) = f }
        cell(f) == LET i == CHOOSE j \in idx(f) : \A k \in idx(f) : k <= j
                   IN IF i <= Len(row) THEN row[i] ELSE Undefined
        set == { f \in { "company", "title", "status", "date_applied",
                         "notes" } :
                   idx(f) # {} /\ cell(f).kind # "undefined" }
        app == [f \in set |-> IF f = "date_applied" THEN cleanDate(cell(f))
                              ELSE cell(f).s]
    IN [status |-> StrOr(app, "status", "Applied"),
        date_applied |-> IF DateTruthy(app) THEN app.date_applied
                         ELSE toISOString(clock)]
       @@ app

\* app.company && app.title
validRow(app) == StrOr(app, "company", "") # "" /\ StrOr(app, "title", "") # ""

RECURSIVE filterRows(_)
filterRows(apps) ==
    IF apps = <<>> THEN <<>>
    ELSE IF validRow(Head(apps)) THEN <<Head(apps)>> \o filterRows(Tail(apps))
    ELSE filterRows(Tail(apps))

processDataUnfiltered(rawData, headers, mapping, clock) ==
    [i \in 1..Len(rawData) |-> processRow(rawData[i], headers, mapping, clock)]

processData(rawData, headers, mapping, clock) ==
    filterRows([i \in 1..Len(rawData) |->
                   processRow(rawData[i], headers, mapping, clock)])

\* window.electronAPI.bulkImport(previewData); a failure is caught and alerted
runImport(d, clock, previewData, fault) ==
    bulkUpsertApplications(d, clock, previewData, fault)

\* steps 2 and 3 of the dialog: "Preview Import", then "Run Import"
ImportFile(Files, Faults, Budget) ==
    \E rawData \in Files, mapping \in Mappings, fault \in Faults :
        LET previewData == processData(rawData, Headers, mapping, now)
            r == runImport(db, now, previewData, fault)
        IN /\ calls < Budget
           /\ calls' = calls + 1
           /\ db' = r.db
           /\ UNCHANGED now
           /\ last' = [op |-> "importFile", id |-> 0,
                       arg |-> [rawData |-> rawData, mapping |-> mapping],
                       ok |-> r.ok, ret |-> r.ret, n |-> r.n, at |-> now,
                       repeat |-> FALSE]
           /\ onlyUpdated' =
                 IF r.ok
                 THEN { id \in onlyUpdated :
                          AppById(r.db, id) = AppById(db, id) }
                      \cup (AppIds(r.db) \ AppIds(db))
                 ELSE onlyUpdated
           /\ UNCHANGED <<nStatusUpdates, deleted>>
           /\ UNCHANGED catalog

NoFault == {0}

Next ==
    \/ Create(CreateInputs, NoFault, MaxCalls)
    \/ Update(UpdateInputs, NoFault, MaxCalls)
    \/ Delete(NoFault, MaxCalls)
    \/ BulkMigrate(NoFault, MaxCalls)
    \/ Import(Batches, NoFault, MaxCalls)
    \/ Tick

Spec == Init /\ [][Next]_vars

\* Runs of creations and imports only, one call longer.
SeedInputs == { [company |-> "Acme", title |-> "Engineer"] }

NextImport ==
    \/ Create(SeedInputs, NoFault, MaxImportCalls)
    \/ Import(Batches, NoFault, MaxImportCalls)

SpecImport == Init /\ [][NextImport]_vars

\* Runs in which the storage may fail at a write statement.
Faults == 0..MaxFault

FaultCreateInputs ==
    { [company |-> "Acme", title |-> "Engineer"],
      [company |-> "Beta", title |-> "Engineer", status |-> "Interview",
       date_applied |-> Day0] }

FaultUpdateInputs ==
    { [status |-> "Interview"], [date_applied |-> Day1],
      [status |-> "Interview", date_applied |-> Day1], [notes |-> "edited"] }

FaultBatches ==
    UNION { [1..n -> { [company |-> "Acme", title |-> "Engineer"],
                       [company |-> "Beta", title |-> "Engineer",
                        status |-> "Interview"] }] : n \in 1..MaxBatch }

NextFault ==
    \/ Create(FaultCreateInputs, Faults, MaxCalls)
    \/ Update(FaultUpdateInputs, Faults, MaxCalls)
    \/ Delete(Faults, MaxCalls)
    \/ BulkMigrate(Faults, MaxCalls)
    \/ Import(FaultBatches, Faults, MaxCalls)
    \/ Tick

SpecFault == Init /\ [][NextFault]_vars

\* Runs that edit the status catalog while applications are created and
\* migrated.
CatalogCreateInputs ==
    { [company |-> "Acme", title |-> "Engineer"],
      [company |-> "Acme", title |-> "Engineer", status |-> "Interview"] }

NextCatalog ==
    \/ Create(CatalogCreateInputs, NoFault, MaxCatalogCalls)
    \/ BulkMigrate(NoFault, MaxCatalogCalls)
    \/ LoadSettings
    \/ HandleAddStatus(NewStatusInputs, MaxCatalogCalls)
    \/ DeleteUnused(MaxCatalogCalls)
    \/ ConfirmDeleteWithMigration(NoFault, MaxCatalogCalls)
    \/ ConfirmDeleteWithoutMigration(MaxCatalogCalls)
    \/ ResetToDefaults(MaxCatalogCalls)
    \/ Tick

SpecCatalog == Init /\ [][NextCatalog]_vars

\* Runs in which company or title may be supplied empty.
BlankCreateInputs ==
    { [company |-> "", title |-> "Engineer"],
      [company |-> "Acme", title |-> ""],
      [title |-> "Engineer"],
      [company |-> "Acme", title |-> "Engineer", status |-> "Interview"] }

NextBlank ==
    \/ Create(BlankCreateInputs, NoFault, MaxCalls)
    \/ Update(FaultUpdateInputs, NoFault, MaxCalls)
    \/ Delete(NoFault, MaxCalls)
    \/ Tick

SpecBlank == Init /\ [][NextBlank]_vars

\* Runs that import sheets through the dialog.
NextImportFile ==
    \/ Create(SeedInputs, NoFault, MaxDialogCalls)
    \/ ImportFile(RawData, NoFault, MaxDialogCalls)
    \/ Tick

SpecImportFile == Init /\ [][NextImportFile]_vars

\* Runs with applications dated up to a month back.
DaysAgo(n) == [fmt |-> "day", t |-> 0 - n]

AnalyticsCreateInputs ==
    { [company |-> "Acme", title |-> "Engineer", date_applied |-> DaysAgo(n)]
        @@ st :
        n \in { 0, 6, 7, 14, 29, 30 }, st \in Opt("status", {"Interview"}) }

AnalyticsUpdateInputs ==
    { [status |-> "Interview"], [status |-> "Applied"],
      [date_applied |-> EmptyDate], [date_applied |-> DaysAgo(14)] }

NextAnalytics ==
    \/ Create(AnalyticsCreateInputs, NoFault, MaxCalls)
    \/ Update(AnalyticsUpdateInputs, NoFault, MaxCalls)
    \/ Tick

SpecAnalytics == Init /\ [][NextAnalytics]_vars

\* Runs without bulk import in which every supplied status is a label.
StoreUpdateInputs ==
    { u \in UpdateInputs : ~(Has(u, "status") /\ u.status = "") }

NextStore ==
    \/ Create(CreateInputs, NoFault, MaxCalls)
    \/ Update(StoreUpdateInputs, NoFault, MaxCalls)
    \/ Delete(NoFault, MaxCalls)
    \/ BulkMigrate(NoFault, MaxCalls)
    \/ Tick

SpecStore == Init /\ [][NextStore]_vars

\* Runs that follow the settings page click by click once the settings are
\* loaded, with a storage that may fail during the migration. The catalog
\* loaded is the default one or one that an earlier session shortened.
StoredStatuses == << "Applied", "Interview" >>

InitPage ==
    /\ db = [applications |-> {}, history |-> {}, seqApp |-> 0, seqHist |-> 0]
    /\ now = 0
    /\ last = NoCall
    /\ nStatusUpdates = [i \in 1..(MaxCalls * MaxBatch + 1) |-> 0]
    /\ onlyUpdated = {}
    /\ deleted = {}
    /\ calls = 0
    /\ statuses \in { DEFAULT_STATUSES, StoredStatuses }
    /\ settings = saveSetting(<<>>, "statuses", statuses)
    /\ loading = FALSE
    /\ deleteData = NoDeleteData
    /\ migrateTarget = ""

\* the dialog covers the window: nothing else is clicked while it is open
DialogClosed == deleteData = NoDeleteData

NextPage ==
    \/ DialogClosed /\ Create(CatalogCreateInputs, NoFault, MaxPageCalls)
    \/ DialogClosed /\ HandleAddStatus({"Custom"}, MaxPageCalls)
    \/ DialogClosed /\ DeleteUnused(MaxPageCalls)
    \/ DialogClosed /\ ResetToDefaults(MaxPageCalls)
    \/ HandleDeleteClick
    \/ ChooseMigrate
    \/ SelectTarget
    \/ ChooseKeep
    \/ Cancel
    \/ ConfirmMigrate(Faults, MaxPageCalls)
    \/ ConfirmKeep(MaxPageCalls)

SpecPage == InitPage /\ [][NextPage]_vars

\* ----------------------------------------------------------------- claims
\* a step that is a call of the store (and not the passing of time)
IsCall(op) == calls' = calls + 1 /\ last'.op = op

Pair(a) == <<a.company, a.title>>

\* C1: for every application that only update calls have touched since it was
\* inserted, the number of its history events is 1 + the number of update
\* calls whose supplied status differed from the stored one.
C1_StatusChangeInvariant ==
    \A a \in db.applications :
        a.id \in onlyUpdated =>
            Cardinality(HistoryOf(db, a.id)) = 1 + nStatusUpdates[a.id]

\* C2: right after a successful create the new application has exactly one
\* history event; its status is the chosen status (default "Applied"), its
\* date the chosen date_applied (default: the time of the call), and the row
\* carries the same status and date_applied.
C2_CreationInvariant ==
    (last.op = "create" /\ last.ok) =>
        LET app == last.arg
            id == last.ret
            chosenStatus == IF Has(app, "status") /\ app.status # ""
                            THEN app.status ELSE "Applied"
            chosenDate == IF Has(app, "date_applied")
                             /\ app.date_applied # EmptyDate
                          THEN app.date_applied
                          ELSE [fmt |-> "iso", t |-> last.at]
        IN /\ id \in AppIds(db)
           /\ Cardinality(HistoryOf(db, id)) = 1
           /\ \A h \in HistoryOf(db, id) :
                 h.status = chosenStatus /\ h.date = chosenDate
           /\ AppById(db, id).status = chosenStatus
           /\ AppById(db, id).date_applied = chosenDate

C2_Witness ==
    /\ last.op = "create" /\ last.ok
    /\ Has(last.arg, "date_applied") /\ last.arg.date_applied = Day0
    /\ last.at = 1
    /\ Cardinality(HistoryOf(db, last.ret)) = 1

\* C3: every application that exists has at least one history event.
C3_EveryApplicationHasHistory ==
    \A a \in db.applications : HistoryOf(db, a.id) # {}

\* C4: an update that supplies date_applied on an application with at least
\* one history event sets the date of the lowest-id event to the new
\* date_applied and leaves the other events of the application as they were.
C4_RetroactiveDateRewrite ==
    [][ (IsCall("update") /\ last'.ok /\ Has(last'.arg, "date_applied")
         /\ HistoryOf(db, last'.id) # {})
        => LET id == last'.id
               first == SetMin({ h.id : h \in HistoryOf(db, id) })
           IN \A h \in HistoryOf(db, id) :
                 IF h.id = first
                 THEN [h EXCEPT !.date = last'.arg.date_applied]
                          \in db'.history
                 ELSE h \in db'.history ]_vars

\* C5: once deleteApplication(id) has removed an application, no application
\* with that id exists and no history event refers to that id, whatever is
\* created later.
C5_CascadeDelete ==
    \A id \in deleted : id \notin AppIds(db) /\ HistoryOf(db, id) = {}

C5_Witness ==
    /\ last.op = "create" /\ last.ok
    /\ \E id \in deleted : id < last.ret
    /\ HistoryOf(db, last.ret) # {}

SetMax(S) == CHOOSE x \in S : \A y \in S : y <= x

\* the applications of d that carry the pair p
Carrying(d, p) == { a \in d.applications : Pair(a) = p }

PairsOf(batch) == { Pair(batch[i]) : i \in 1..Len(batch) }

\* C6 as stated: when a successful import repeats the successful import just
\* before it, it reports added = 0 and updated = batch size, and afterwards
\* no two applications share a (company, title) pair.
C6_ImportIdempotence ==
    (last.op = "import" /\ last.ok /\ last.repeat) =>
        /\ last.ret.added = 0
        /\ last.ret.updated = Len(last.arg)
        /\ \A a, b \in db.applications : Pair(a) = Pair(b) => a = b

\* C6 amended: a repeated import reports added = 0 and updated = batch size
\* and inserts nothing, and no import gives a second application to a pair:
\* a pair carried by at most one application before an import is carried by
\* at most one after it.
C6_ImportIdempotenceAmended ==
    [][ (IsCall("import") /\ last'.ok)
        => /\ \A p \in PairsOf(last'.arg) :
                 Cardinality(Carrying(db, p)) <= 1
                     => Cardinality(Carrying(db', p)) = 1
           /\ \A a \in db'.applications :
                 Cardinality(Carrying(db', Pair(a))) > 1
                     => Cardinality(Carrying(db, Pair(a))) > 1
           /\ last'.repeat
                 => /\ last'.ret.added = 0
                    /\ last'.ret.updated = Len(last'.arg)
                    /\ AppIds(db') = AppIds(db) ]_vars

C6_Witness ==
    /\ last.op = "import" /\ last.ok /\ last.repeat
    /\ Len(last.arg) = 2
    /\ last.arg[1] = last.arg[2]
    /\ last.ret = [added |-> 0, updated |-> 2]

\* C7: a successful import leaves every application that existed before it
\* with its id, company, title and history events; the application a row
\* matches takes status, date_applied, process_steps, outcome and notes from
\* the (last such) row, and an application no row matches is unchanged.
C7_ImportMergePath ==
    [][ (IsCall("import") /\ last'.ok)
        => \A a \in db.applications :
              LET batch == last'.arg
                  rowsFor == { i \in 1..Len(batch) : Pair(batch[i]) = Pair(a) }
                  matched == rowsFor # {}
                             /\ a.id = SetMin({ b.id : b \in Carrying(db, Pair(a)) })
              IN /\ a.id \in AppIds(db')
                 /\ HistoryOf(db', a.id) = HistoryOf(db, a.id)
                 /\ LET a2 == AppById(db', a.id)
                    IN /\ a2.company = a.company /\ a2.title = a.title
                       /\ IF matched
                          THEN LET row == batch[SetMax(rowsFor)]
                               IN /\ a2.status = IF Has(row, "status")
                                                    /\ row.status # ""
                                                 THEN row.status ELSE "Applied"
                                  /\ a2.date_applied =
                                        IF Has(row, "date_applied")
                                        THEN row.date_applied
                                        ELSE [fmt |-> "iso", t |-> now]
                                  /\ a2.process_steps =
                                        IF Has(row, "process_steps")
                                        THEN <<"json", row.process_steps>>
                                        ELSE <<"json", <<>>>>
                                  /\ a2.outcome = IF Has(row, "outcome")
                                                  THEN row.outcome ELSE NULL
                                  /\ a2.notes = IF Has(row, "notes")
                                                THEN row.notes ELSE ""
                          ELSE a2 = a ]_vars

C7_Witness ==
    /\ last.op = "import" /\ last.ok
    /\ last.ret = [added |-> 0, updated |-> 1]
    /\ Has(last.arg[1], "notes")
    /\ \E a \in db.applications :
          /\ Pair(a) = Pair(last.arg[1])
          /\ a.notes = "note" /\ a.status = "Interview"
          /\ \E h \in HistoryOf(db, a.id) : h.status = "Applied"

\* C8: a successful import reports as added the number of distinct pairs of
\* the batch that no application carried before the call, as updated the
\* other rows, added + updated = batch size, and it inserts exactly added
\* applications.
C8_ImportCounts ==
    [][ (IsCall("import") /\ last'.ok)
        => LET batch == last'.arg
               fresh == { p \in PairsOf(batch) : Carrying(db, p) = {} }
           IN /\ last'.ret.added = Cardinality(fresh)
              /\ last'.ret.updated = Len(batch) - Cardinality(fresh)
              /\ last'.ret.added + last'.ret.updated = Len(batch)
              /\ Cardinality(db'.applications)
                    = Cardinality(db.applications) + last'.ret.added ]_vars

C8_Witness ==
    /\ last.op = "import" /\ last.ok
    /\ last.ret = [added |-> 1, updated |-> 1]
    /\ Pair(last.arg[1]) # Pair(last.arg[2])
    /\ \E a \in db.applications : HistoryOf(db, a.id) # {}

\* C9: an import or a bulkUpdateStatus that fails leaves both tables and the
\* id sequences as they were and returns no counts.
C9_BulkAllOrNothing ==
    [][ ((IsCall("import") \/ IsCall("migrate")) /\ ~last'.ok)
        => (db' = db /\ last'.ret = void) ]_vars

C9_Witness ==
    /\ last.op = "import" /\ ~last.ok
    /\ last.n = 2
    /\ Len(last.arg) = 2
    /\ Pair(last.arg[1]) # Pair(last.arg[2])
    /\ db.applications = {}

\* C10: a create that fails leaves the database as it was and one that
\* succeeds leaves the row together with its creation event; an update that
\* fails leaves the database as it was and one that succeeds leaves the row
\* change together with the event a differing supplied status requires and
\* the rewrite of the earliest event's date a supplied date_applied requires.
C10_CreateUpdateAtomic ==
    [][ /\ IsCall("create")
           => LET id == last'.id
              IN /\ (id \in AppIds(db')) <=> (HistoryOf(db', id) # {})
                 /\ IF last'.ok
                    THEN id \in AppIds(db')
                         /\ Cardinality(HistoryOf(db', id)) = 1
                    ELSE db' = db
        /\ IsCall("update")
           => IF ~last'.ok THEN db' = db
              ELSE LET id == last'.id
                       upd == last'.arg
                   IN (id \in AppIds(db) /\ DOMAIN upd # {})
                      => LET a == AppById(db, id)
                             a2 == AppById(db', id)
                             added == HistoryOf(db', id) \ db.history
                         IN /\ \A k \in DOMAIN upd : a2[k] = upd[k]
                            /\ a2.last_updated = [fmt |-> "sql", t |-> now]
                            /\ (Has(upd, "status") /\ upd.status # a.status)
                               => \E h \in added : h.status = upd.status
                            /\ (Has(upd, "date_applied")
                                /\ HistoryOf(db, id) # {})
                               => \E h \in HistoryOf(db', id) :
                                     /\ h.id = SetMin({ g.id : g \in HistoryOf(db, id) })
                                     /\ h.date = upd.date_applied ]_vars

\* C11: a successful bulkMigrate(oldStatus, newStatus), called directly or by
\* "Migrate & Delete", gives every application that was at oldStatus the
\* status newStatus and exactly one more history event, which records
\* newStatus; every other application keeps its row (status and last_updated
\* included) and its history; after "Migrate & Delete" the catalog no longer
\* holds oldStatus.
C11_BulkMigrate ==
    [][ ((IsCall("migrate") \/ IsCall("migrateDelete")) /\ last'.ok)
        => LET oldStatus == last'.arg[1]
               newStatus == last'.arg[2]
           IN /\ AppIds(db') = AppIds(db)
              /\ \A a \in db.applications :
                    LET gained == HistoryOf(db', a.id) \ HistoryOf(db, a.id)
                    IN IF a.status = oldStatus
                       THEN /\ AppById(db', a.id).status = newStatus
                            /\ HistoryOf(db, a.id) \subseteq HistoryOf(db', a.id)
                            /\ Cardinality(gained) = 1
                            /\ \A h \in gained : h.status = newStatus
                       ELSE /\ AppById(db', a.id) = a
                            /\ HistoryOf(db', a.id) = HistoryOf(db, a.id)
              /\ last'.op = "migrateDelete" => ~includes(statuses', oldStatus)
      ]_vars

C11_Witness ==
    /\ last.op = "migrateDelete" /\ last.ok
    /\ last.arg = <<"Interview", "Offer">>
    /\ Cardinality(db.applications) = 3
    /\ \A a \in db.applications :
          /\ a.status = "Offer"
          /\ Cardinality(HistoryOf(db, a.id)) = 2
    /\ ~includes(statuses, "Interview")

\* C12: an update that names an id no application has and supplies at least
\* one field fails and leaves the applications and history tables as they
\* were.
C12_UpdateNotFound ==
    [][ (IsCall("update") /\ last'.id \notin AppIds(db)
         /\ DOMAIN last'.arg # {})
        => (~last'.ok /\ db' = db) ]_vars

\* C13: a create whose company or title is missing or empty fails and writes
\* nothing: no application row, no history event.
C13_CreateValidation ==
    [][ (IsCall("create")
         /\ (StrOr(last'.arg, "company", "") = ""
             \/ StrOr(last'.arg, "title", "") = ""))
        => (~last'.ok /\ db' = db) ]_vars

\* the applications an import's rows match: for each pair of the batch, the
\* lowest id that carried it before the call
MergedIds(d, batch) ==
    { SetMin({ b.id : b \in { x \in d.applications : Pair(x) = Pair(batch[i]) } })
      : i \in { j \in 1..Len(batch) :
                  \E x \in d.applications : Pair(x) = Pair(batch[j]) } }

\* C14: last_updated of an application never decreases, and every write to
\* it sets it to the current time: a successful update of an existing id
\* does so whatever fields it supplies, and so do an import for the
\* applications it merges into and a bulkMigrate for those it relabels.
C14_LastUpdatedRefreshed ==
    [][ /\ \A a \in db.applications :
              a.id \in AppIds(db')
                  => AppById(db', a.id).last_updated.t >= a.last_updated.t
        /\ (IsCall("update") /\ last'.ok /\ last'.id \in AppIds(db))
              => AppById(db', last'.id).last_updated = CURRENT_TIMESTAMP(now)
        /\ (IsCall("import") /\ last'.ok)
              => \A id \in MergedIds(db, last'.arg) :
                    AppById(db', id).last_updated = CURRENT_TIMESTAMP(now)
        /\ (IsCall("migrate") /\ last'.ok)
              => \A a \in db.applications :
                    a.status = last'.arg[1]
                        => AppById(db', a.id).last_updated
                              = CURRENT_TIMESTAMP(now)
      ]_vars

\* the position of application id in a list
IndexOf(list, id) == CHOOSE i \in 1..Len(list) : list[i].id = id

\* the applications a successful call wrote
Touched(d, d2, call) ==
    IF ~call.ok THEN {}
    ELSE CASE call.op = "create" -> { call.ret }
           [] call.op = "update" ->
                 IF DOMAIN call.arg \ {"id"} = {} THEN {}
                 ELSE { call.id } \cap AppIds(d)
           [] call.op = "import" ->
                 MergedIds(d, call.arg) \cup (AppIds(d2) \ AppIds(d))
           [] call.op \in { "migrate", "migrateDelete" } ->
                 { a.id : a \in { b \in d.applications :
                                    b.status = call.arg[1] } }
           [] OTHER -> {}

Earlier(a, b) ==
    IF a.fmt = "day" \/ b.fmt = "day" THEN DayOf(a) < DayOf(b)
    ELSE a.t < b.t

\* C16: getHistory(id) returns exactly the events of application id, and no
\* event in the list comes after one whose date is an earlier time.
C16_HistoryNewestFirst ==
    \A id \in AppIds(db) : \A tie \in Ties :
        LET list == getHistory(db, id, tie)
        IN /\ { list[i] : i \in 1..Len(list) } = HistoryOf(db, id)
           /\ Len(list) = Cardinality(HistoryOf(db, id))
           /\ \A i, j \in 1..Len(list) :
                 i < j => ~Earlier(list[i].date, list[j].date)

\* C17: deleting a status from the catalog without migration, and resetting
\* the catalog to the defaults, leave the applications and history tables
\* exactly as they were.
C17_CatalogOnly ==
    [][ (IsCall("deleteStatus") \/ IsCall("reset")) => db' = db ]_vars

C17_Witness ==
    /\ last.op = "deleteStatus" /\ last.ok
    /\ last.arg = "Interview"
    /\ ~includes(statuses, "Interview")
    /\ \E a \in db.applications :
          a.status = "Interview" /\ HistoryOf(db, a.id) # {}

Unique(list) ==
    \A i, j \in 1..Len(list) : list[i] = list[j] => i = j

\* what getSettings returns once the catalog was saved is the catalog shown,
\* and it was saved once the settings are loaded
CatalogPersisted ==
    /\ Has(settings, "statuses")
          => getSettings(settings).statuses = statuses
    /\ ~loading => Has(settings, "statuses")

ReachedInterview(d) ==
    { a \in d.applications :
        \E h \in HistoryOf(d, a.id) : h.status \in InterviewReachedStatuses }

\* C19: the interview rate is 100 * (applications with an event at
\* Interview, Offer or Accepted) / (all applications), 0 when there is no
\* application, and always between 0 and 100.
C19_InterviewRate ==
    LET rate == interviewRate(db)
    IN /\ rate.den > 0
       /\ rate.num >= 0 /\ rate.num <= 100 * rate.den
       /\ db.applications = {} => rate.num = 0
       /\ db.applications # {}
             => rate.num * Cardinality(db.applications)
                   = 100 * Cardinality(ReachedInterview(db)) * rate.den

C19_Witness ==
    /\ Cardinality(db.applications) = 2
    /\ interviewRate(db) = [num |-> 100, den |-> 2]
    /\ \E a \in db.applications :
          Cardinality({ h \in HistoryOf(db, a.id) : h.status = "Interview" }) = 2

\* C20: the average response time, when it is not NULL, is not negative.
C20_ResponseTimeNonNegative ==
    avgResponseTime(db).n > 0 => avgResponseTime(db).sum >= 0

\* the time of the earliest event of application a whose status is not
\* Applied, Withdrawn or Online Assessment
EarliestResponse(d, a) ==
    LET ts == { julianday(h.date) :
                  h \in { g \in HistoryOf(d, a.id) :
                            g.status \notin NotMeaningfulStatuses } }
    IN SetMin(ts)

\* C21: the average response time is the mean, over exactly the applications
\* that have an event whose status is not Applied, Withdrawn or Online
\* Assessment, of (time of the earliest such event - date_applied); it is
\* NULL exactly when no application has such an event.
C21_AverageResponseTime ==
    LET avg == avgResponseTime(db)
        qualifying == Responded(db)
        diff == [a \in { b \in qualifying : b.date_applied.fmt # "empty" } |->
                    EarliestResponse(db, a) - julianday(a.date_applied)]
    IN /\ avg.n = Cardinality(qualifying)
       /\ avg.sum = Sum(diff, DOMAIN diff)

\* the rows of a sheet that hold a company and a title under the mapping
cellOf(row, mapping, f) ==
    LET idx == { i \in 1..Len(Headers) : Headers[i] \in DOMAIN mapping
                                          /\ mapping[Headers[i]] = f }
    IN IF idx = {} \/ SetMax(idx) > Len(row) THEN ""
       ELSE row[SetMax(idx)].s

Kept(rawData, mapping) ==
    { i \in 1..Len(rawData) : /\ cellOf(rawData[i], mapping, "company") # ""
                              /\ cellOf(rawData[i], mapping, "title") # "" }

\* C22: an import through the dialog never fails because of rows that lack a
\* company or a title: those rows are dropped, every other row of the sheet is
\* applied (its pair is in the store afterwards, and the store holds no pair
\* that was not there before or in a kept row), and added + updated is the
\* number of kept rows.
C22_InvalidRowsDropped ==
    [][ IsCall("importFile") =>
          LET rawData == last'.arg.rawData
              mapping == last'.arg.mapping
              kept == Kept(rawData, mapping)
              keptPairs == { <<cellOf(rawData[i], mapping, "company"),
                               cellOf(rawData[i], mapping, "title")>> :
                             i \in kept }
          IN /\ last'.ok
             /\ last'.ret.added + last'.ret.updated = Cardinality(kept)
             /\ { Pair(a) : a \in db'.applications }
                  = { Pair(a) : a \in db.applications } \cup keptPairs
             /\ Cardinality(db'.applications)
                  = Cardinality(db.applications) + last'.ret.added ]_vars

\* a sheet with a dropped row and a kept row was imported
C22_Witness ==
    /\ last.op = "importFile"
    /\ last.ok
    /\ Len(last.arg.rawData) = 2
    /\ Cardinality(Kept(last.arg.rawData, last.arg.mapping)) = 1
    /\ last.ret = [added |-> 1, updated |-> 0]

\* the event of application id with the lowest id
FirstEvent(d, id) ==
    CHOOSE h \in HistoryOf(d, id) : \A g \in HistoryOf(d, id) : h.id <= g.id

\* C23: in every reachable state, for every application with at least one
\* history event, the date of its lowest-id event is the application's
\* current date_applied.
C23_FirstEventDateAligned ==
    \A a \in db.applications :
        HistoryOf(db, a.id) # {} => FirstEvent(db, a.id).date = a.date_applied

\* C24: update(id, fields) leaves the id of the application and every field
\* that was not supplied (but last_updated) as they were, and changes no other
\* application and no history event of another application.
C24_UpdateFrame ==
    [][ IsCall("update") =>
          LET id == last'.id
          IN /\ AppIds(db') = AppIds(db)
             /\ \A a \in db.applications : a.id # id => a \in db'.applications
             /\ { h \in db'.history : h.application_id # id }
                  = { h \in db.history : h.application_id # id }
             /\ id \in AppIds(db) =>
                  \A k \in DOMAIN AppById(db, id) \ { "last_updated" } :
                      ~Has(last'.arg, k) =>
                          AppById(db', id)[k] = AppById(db, id)[k] ]_vars

\* an update that changed a field of one application while another
\* application with history exists
C24_Witness ==
    /\ last.op = "update" /\ last.ok
    /\ Has(last.arg, "status") /\ ~Has(last.arg, "notes")
    /\ last.id \in AppIds(db)
    /\ AppById(db, last.id).status = last.arg.status
    /\ \E h \in HistoryOf(db, last.id) : h.date = CURRENT_TIMESTAMP(last.at)
    /\ \E a \in db.applications : a.id # last.id /\ HistoryOf(db, a.id) # {}

\* the bucket the day difference of a qualifying application belongs to
BucketOfDays(days) ==
    CASE days < 7 * ReadingsPerDay -> "< 1 week"
      [] days >= 7 * ReadingsPerDay /\ days < 14 * ReadingsPerDay -> "1-2 weeks"
      [] days >= 14 * ReadingsPerDay /\ days < 30 * ReadingsPerDay
           -> "2-4 weeks"
      [] days >= 30 * ReadingsPerDay -> "1+ month"

\* C25: the four counts of the response-time distribution sum to the number
\* of applications with a meaningful event, and every such application whose
\* day difference d (earliest meaningful event minus date_applied) is defined
\* is counted in the bucket of d: d < 7, 7 <= d < 14, 14 <= d < 30, d >= 30.
C25_ResponseTimeBuckets ==
    LET dist == responseTimeDistribution(db)
        dated == { a \in Responded(db) : a.date_applied.fmt # "empty" }
        days(a) == EarliestResponse(db, a) - julianday(a.date_applied)
    IN /\ Sum(dist, Buckets) = Cardinality(Responded(db))
       /\ \A b \in Buckets :
             dist[b] >= Cardinality({ a \in dated : BucketOfDays(days(a)) = b })
       /\ (dated = Responded(db)) =>
             \A b \in Buckets :
                dist[b] = Cardinality({ a \in dated :
                                          BucketOfDays(days(a)) = b })

\* an application answered exactly 14 days after it was applied for is the
\* only one counted, next to an application without a meaningful event
C25_Witness ==
    /\ responseTimeDistribution(db)["2-4 weeks"] = 1
    /\ Cardinality(db.applications) = 2
    /\ Cardinality(Responded(db)) = 1
    /\ \E a \in Responded(db) :
          EarliestResponse(db, a) - julianday(a.date_applied)
              = 14 * ReadingsPerDay

\* C26: when one update supplies a status that differs from the stored one
\* and a date_applied, the event it appends is dated with the time of the
\* call: the date rewrite changes only an event that existed before the call.
C26_AppendedEventKeepsCallTime ==
    [][ (IsCall("update") /\ last'.ok /\ StatusDiffers(db, last'.id, last'.arg)
         /\ last'.arg.status # "" /\ DateTruthy(last'.arg))
        => /\ \E h \in db'.history : h.id > db.seqHist
           /\ \A h \in db'.history :
                 h.id > db.seqHist =>
                    /\ h.application_id = last'.id
                    /\ h.status = last'.arg.status
                    /\ h.date = CURRENT_TIMESTAMP(last'.at) ]_vars

\* the event of application id with the highest id
LatestEvent(d, id) ==
    CHOOSE h \in HistoryOf(d, id) : \A g \in HistoryOf(d, id) : g.id <= h.id

\* C27: in runs of create, update with a non-empty status, bulkMigrate and
\* delete, without bulk import, every application has a history event and
\* its current status is the status of its highest-id event.
C27_StatusIsLatestEvent ==
    \A a \in db.applications :
        /\ HistoryOf(db, a.id) # {}
        /\ LatestEvent(db, a.id).status = a.status

\* a status change has appended an event to an application created earlier
C27_Witness ==
    /\ last.op \in { "update", "migrate" } /\ last.ok
    /\ \E a \in db.applications :
          /\ Cardinality(HistoryOf(db, a.id)) >= 2
          /\ LatestEvent(db, a.id).id = db.seqHist
          /\ LatestEvent(db, a.id).status = a.status
          /\ FirstEvent(db, a.id).status # a.status

\* C28: in every reachable state no application has two history events that
\* are adjacent in id order and record the same status.
C28_NoRepeatedStatus ==
    \A g \in db.history, h \in db.history :
        (/\ g.application_id = h.application_id
         /\ g.id < h.id
         /\ ~\E k \in HistoryOf(db, g.application_id) : g.id < k.id /\ k.id < h.id)
        => g.status # h.status

\* C29: "Migrate & Delete" removes the status from the catalog only after
\* the migration has committed (its applications then carry the target and
\* none carries the status, unless the two are the same); when the migration
\* fails the catalog, the settings table and the database stay as they were.
C29_MigrateThenDelete ==
    [][ IsCall("migrateDelete") =>
          LET status == last'.arg[1]
              target == last'.arg[2]
              moved == { a.id : a \in { b \in db.applications :
                                          b.status = status } }
          IN IF last'.ok
             THEN /\ statuses' = available(statuses, status)
                  /\ \A id \in moved : AppById(db', id).status = target
                  /\ target # status => usageCount(db', status) = 0
             ELSE /\ statuses' = statuses
                  /\ settings' = settings
                  /\ db' = db ]_vars

\* a migration failed after its UPDATE statement had run: the status is
\* still in the catalog and still in use, and the dialog is still open
C29_Witness ==
    /\ last.op = "migrateDelete" /\ ~last.ok /\ last.n = 2
    /\ includes(statuses, last.arg[1])
    /\ usageCount(db, last.arg[1]) > 0
    /\ deleteData # NoDeleteData

\* C30: whenever the settings page calls bulkMigrate(status, target), the
\* target is in the catalog and is not the status being deleted.
C30_MigrateTargetValid ==
    [][ IsCall("migrateDelete") =>
          /\ includes(statuses, last'.arg[2])
          /\ last'.arg[2] # last'.arg[1] ]_vars
====
